---- MODULE Spec2Model ----
(***************************************************************************)
(* A model of librarian (src/librarian.py): the DocumentCell validator and *)
(* its id counter, the project scanner load_project, the plugin registry   *)
(* AppResources and Dependency.to_json.                                    *)
(*                                                                         *)
(* Python strings are sequences of one-character strings, so that          *)
(* str.startswith, str.lower and the substring test `a in b` are computed  *)
(* character by character.  A dict is a function on its set of keys.       *)
(***************************************************************************)
EXTENDS Integers, Sequences, FiniteSets, TLC

VARIABLES
    APP_CONFIG,     \* the run's AppConfig (module global)
    ID_COUNTER,     \* _ID_COUNTER (module global)
    cells,          \* the DocumentCells constructed so far, in construction order
    last,           \* the latest DocumentCell construction: its call and outcome
    dirs,           \* file system: the directories under (and including) the scan root
    readme,         \* file system: the directories holding a file README.md
    scan_root,      \* the path load_project is called with
    pc,             \* load_project: "idle", "walk", "done" or "raised"
    stack,          \* os.walk: directories still to be yielded, next first
    visited,        \* os.walk: the dirpaths yielded so far, in order
    positions,      \* load_project: positions
    scan,           \* load_project: what the call gave back (result or error)
    plugin_files,   \* <home>/plugins/<name>.obj: the pickled LanguageSpecs, or no file
    languages,      \* AppResources._languages (class attribute)
    last_load,      \* the latest AppResources(data) call and its outcome
    last_query,     \* the latest is_language_exists call and its answer
    dep,            \* a Dependency
    json_out        \* the outcome of dep.to_json()

vars == <<APP_CONFIG, ID_COUNTER, cells, last, dirs, readme, scan_root, pc, stack,
          visited, positions, scan, plugin_files, languages, last_load, last_query,
          dep, json_out>>

cell_vars == <<ID_COUNTER, cells, last>>
scan_vars == <<dirs, readme, scan_root, pc, stack, visited, positions, scan>>
registry_vars == <<plugin_files, languages, last_load, last_query>>
dep_vars == <<dep, json_out>>

-----------------------------------------------------------------------------
(* Bounds                                                                  *)

\* DocumentCell constructions in one run
MaxCells == 3

\* Directories below the scan root
MaxDirs == 3

\* Entries of a plugin manifest
MaxPlugins == 2

\* LanguageSpecs in the catalog
MaxLangs == 3

-----------------------------------------------------------------------------
(* Strings                                                                 *)

\* str.startswith(prefix)
startswith(s, prefix) ==
    /\ Len(s) >= Len(prefix)
    /\ SubSeq(s, 1, Len(prefix)) = prefix

https == <<"h", "t", "t", "p", "s">>

\* Link targets the constructions are tried with: an https URL, an http URL and
\* the empty string (shorter than the prefix "https").
Targets ==
    { <<"h", "t", "t", "p", "s", ":", "/", "/", "a">>,
      <<"h", "t", "t", "p", ":", "/", "/", "a">>,
      <<>> }

\* Raw contents the constructions are tried with.
Texts == { <<>>, <<"x">> }

-----------------------------------------------------------------------------
(* AppConfig                                                               *)

AppConfig(force_install, ignore_compromised, always_yes, verbose) ==
    [force_install |-> force_install, ignore_compromised |-> ignore_compromised,
     always_yes |-> always_yes, verbose |-> verbose]

\* The configuration the module installs when it is imported.
DefaultConfig == AppConfig(FALSE, FALSE, FALSE, FALSE)

-----------------------------------------------------------------------------
(* DocumentCell                                                            *)

DocumentCellType ==
    {"paragraph", "link_text", "link_external", "table", "code", "image", "field"}
        \cup {"header_1", "header_2", "header_3", "header_4", "header_5",
              "header_6", "header_7", "header_8", "header_9", "header_10"}

\* The types direct constructions are tried with: every type with a rule of its
\* own, two without one, and the first and last header.
InputTypes ==
    {"paragraph", "link_text", "link_external", "table", "code", "image", "field",
     "header_1", "header_10"}

\* The attribute keys the validator looks at.
AttrKeys == {"name", "label", "target", "lang", "src"}

\* The key sets direct constructions are tried with: the keys of the field and
\* link rules in any combination, those of the code, image and link rules in any
\* combination, and all keys together.
InputKeySets ==
    (SUBSET {"name", "label", "target"}) \cup (SUBSET {"lang", "src", "target"})
        \cup {AttrKeys}

\* The attribute dicts direct constructions are tried with: target is one of
\* Targets, every other value is the empty string.
InputAttrs ==
    { [k \in S |-> IF k = "target" THEN t ELSE <<>>] : S \in InputKeySets, t \in Targets }

\* _id_generator, a broken variant: returns the counter without advancing it.
id_generator_stuck(counter) == [counter |-> counter, value |-> counter]

\* _id_generator: advances the global counter and returns its new value.
id_generator(counter) == [counter |-> counter + 1, value |-> counter + 1]

NoError == [raised |-> FALSE, attrs |-> <<>>, id |-> 0, rule |-> ""]

\* ValueError(self.additional_content, self.id, rule)
ValueError(additional_content, id, rule) ==
    [raised |-> TRUE, attrs |-> additional_content, id |-> id, rule |-> rule]

FieldRule == "Fields must contain name and text label"
TargetRule == "Links must contain target information!"
HttpsRule == "External links must contain https schema"
LangRule == "Code sections must contain language, at least empty key"
SrcRule == "Images must contain link to source, at least network"

\* __post_init__, a broken variant: a field is rejected only when both keys miss.
post_init_and(type, additional_content, id) ==
    IF type = "field" /\ ("name" \notin DOMAIN additional_content
                          /\ "label" \notin DOMAIN additional_content)
    THEN ValueError(additional_content, id, FieldRule)
    ELSE IF type \in {"link_text", "link_external"}
            /\ "target" \notin DOMAIN additional_content
    THEN ValueError(additional_content, id, TargetRule)
    ELSE IF type = "link_external"
            /\ ~startswith(additional_content["target"], https)
            /\ ~APP_CONFIG.force_install
    THEN ValueError(additional_content, id, HttpsRule)
    ELSE IF type = "code" /\ "lang" \notin DOMAIN additional_content
    THEN ValueError(additional_content, id, LangRule)
    ELSE IF type = "image" /\ "src" \notin DOMAIN additional_content
    THEN ValueError(additional_content, id, SrcRule)
    ELSE NoError

\* __post_init__, a broken variant: a code cell needs a non-empty lang.
post_init_lang_truthy(type, additional_content, id) ==
    IF type = "field" /\ ("name" \notin DOMAIN additional_content
                          \/ "label" \notin DOMAIN additional_content)
    THEN ValueError(additional_content, id, FieldRule)
    ELSE IF type \in {"link_text", "link_external"}
            /\ "target" \notin DOMAIN additional_content
    THEN ValueError(additional_content, id, TargetRule)
    ELSE IF type = "link_external"
            /\ ~startswith(additional_content["target"], https)
            /\ ~APP_CONFIG.force_install
    THEN ValueError(additional_content, id, HttpsRule)
    ELSE IF type = "code" /\ ("lang" \notin DOMAIN additional_content
                                \/ additional_content["lang"] = <<>>)
    THEN ValueError(additional_content, id, LangRule)
    ELSE IF type = "image" /\ "src" \notin DOMAIN additional_content
    THEN ValueError(additional_content, id, SrcRule)
    ELSE NoError

\* DocumentCell.__post_init__: the first rule the cell violates, if any.
post_init(type, additional_content, id) ==
    IF type = "field" /\ ("name" \notin DOMAIN additional_content
                          \/ "label" \notin DOMAIN additional_content)
    THEN ValueError(additional_content, id, FieldRule)
    ELSE IF type \in {"link_text", "link_external"}
            /\ "target" \notin DOMAIN additional_content
    THEN ValueError(additional_content, id, TargetRule)
    ELSE IF type = "link_external"
            /\ ~startswith(additional_content["target"], https)
            /\ ~APP_CONFIG.force_install
    THEN ValueError(additional_content, id, HttpsRule)
    ELSE IF type = "code" /\ "lang" \notin DOMAIN additional_content
    THEN ValueError(additional_content, id, LangRule)
    ELSE IF type = "image" /\ "src" \notin DOMAIN additional_content
    THEN ValueError(additional_content, id, SrcRule)
    ELSE NoError

\* The dataclass-generated __init__ followed by __post_init__: the id is drawn
\* from _id_generator before validation; a cell exists only if validation passes.
Construct(op, raw_content, additional_content, type) ==
    LET gen == id_generator(ID_COUNTER)
        err == post_init(type, additional_content, gen.value)
    IN  /\ ID_COUNTER < MaxCells
        /\ type \in DocumentCellType
        /\ ID_COUNTER' = gen.counter
        /\ cells' = IF err.raised THEN cells ELSE Append(cells, gen.value)
        /\ last' = [op |-> op, type |-> type, raw_content |-> raw_content,
                    additional_content |-> additional_content, id |-> gen.value,
                    raised |-> err.raised, rule |-> err.rule, error_id |-> err.id,
                    error_attrs |-> err.attrs]

\* DocumentCell(raw_content, additional_content, type=type); the raw content is
\* not read by __post_init__ and is varied in the convenience constructors only.
DocumentCell ==
    \E type \in InputTypes, additional_content \in InputAttrs :
        Construct("DocumentCell", <<"x">>, additional_content, type)

\* DocumentCell.create_paragraph(text, centralized)
create_paragraph ==
    \E text \in Texts, centralized \in BOOLEAN :
        Construct("create_paragraph", text, [k \in {"centralize"} |-> centralized],
                  "paragraph")

\* DocumentCell.create_text_link(text, to, as_class, as_text)
create_text_link ==
    \E text \in Texts, to \in Targets, as_class \in BOOLEAN :
        Construct("create_text_link", text,
                  [k \in {"to", "as_class", "as_text"} |->
                      IF k = "to" THEN to ELSE IF k = "as_class" THEN as_class ELSE FALSE],
                  "link_text")

\* DocumentCell.create_external_link(text, to, ...): the service flags keep their
\* defaults.
create_external_link ==
    \E text \in Texts, to \in Targets :
        Construct("create_external_link", text,
                  [k \in {"to", "as_class", "as_text", "to_twitter", "to_meta",
                          "to_github", "to_gitlab", "to_vk", "to_email", "to_slack"} |->
                      IF k = "to" THEN to ELSE FALSE],
                  "link_external")

NoCall ==
    [op |-> "none", type |-> "paragraph", raw_content |-> <<>>,
     additional_content |-> <<>>, id |-> 0, raised |-> FALSE, rule |-> "",
     error_id |-> 0, error_attrs |-> <<>>]

CellIdle == ID_COUNTER = 0 /\ cells = <<>> /\ last = NoCall

-----------------------------------------------------------------------------
(* Idle values of the other components (filled in below)                   *)

ScanIdle ==
    /\ dirs = {} /\ readme = {} /\ scan_root = <<>> /\ pc = "idle"
    /\ stack = <<>> /\ visited = <<>> /\ positions = <<>>
    /\ scan = [raised |-> FALSE, path |-> <<>>, result |-> <<>>]

RegistryIdle ==
    /\ plugin_files = <<>> /\ languages = <<>>
    /\ last_load = [outcome |-> "none"]
    /\ last_query = [asked |-> FALSE]

DepIdle == dep = [name |-> <<>>] /\ json_out = [called |-> FALSE]

-----------------------------------------------------------------------------
(* The DocumentCell specification                                          *)

\* cli(): the run's configuration is whatever the command line flags say.
InitCell ==
    /\ \E force_install \in BOOLEAN, ignore_compromised \in BOOLEAN :
           APP_CONFIG = AppConfig(force_install, ignore_compromised, FALSE, FALSE)
    /\ CellIdle /\ ScanIdle /\ RegistryIdle /\ DepIdle

NextCell ==
    \/ DocumentCell /\ UNCHANGED <<APP_CONFIG, scan_vars, registry_vars, dep_vars>>
    \/ create_paragraph /\ UNCHANGED <<APP_CONFIG, scan_vars, registry_vars, dep_vars>>
    \/ create_text_link /\ UNCHANGED <<APP_CONFIG, scan_vars, registry_vars, dep_vars>>
    \/ create_external_link /\ UNCHANGED <<APP_CONFIG, scan_vars, registry_vars, dep_vars>>

SpecCell == InitCell /\ [][NextCell]_vars

\* The ids of the cells that exist.
CellIds == { cells[i] : i \in 1..Len(cells) }

\* The latest construction produced a cell / produced none.
Produced == ~last.raised /\ last.id \in CellIds
Failed == last.raised /\ last.id \notin CellIds

\* C1: a direct construction of a field cell fails (raises, no cell exists for it)
\* exactly when its attributes lack name or lack label; with both keys it
\* succeeds whatever the other attributes are.
C1_FieldNeedsNameAndLabel ==
    (last.op = "DocumentCell" /\ last.type = "field") =>
        IF {"name", "label"} \subseteq DOMAIN last.additional_content
        THEN Produced
        ELSE Failed /\ last.rule = FieldRule

\* C1 witness: a field cell with name, label and further attributes was built.
C1_Witness ==
    /\ last.op = "DocumentCell" /\ last.type = "field"
    /\ DOMAIN last.additional_content = AttrKeys
    /\ Produced

\* C2: an external link with a target fails exactly when the target does not
\* start with https and the run is not in insecure (unsafe) mode, the mode
\* AppConfig.ignore_compromised sets.
C2_InsecureModeGate ==
    (last.type = "link_external" /\ "target" \in DOMAIN last.additional_content) =>
        (last.raised <=>
            (~startswith(last.additional_content["target"], https)
             /\ ~APP_CONFIG.ignore_compromised))

\* C3: create_text_link(text, target) yields a link_text cell, and
\* create_external_link(text, target) with an https target a link_external cell,
\* each with the attribute target equal to the given target.
C3_ConvenienceConstructors ==
    /\ last.op = "create_paragraph" => Produced
    /\ last.op = "create_text_link" =>
           /\ Produced /\ last.type = "link_text"
           /\ "target" \in DOMAIN last.additional_content
           /\ last.additional_content["target"] = last.additional_content["to"]
    /\ (last.op = "create_external_link"
            /\ startswith(last.additional_content["to"], https)) =>
           /\ Produced /\ last.type = "link_external"
           /\ "target" \in DOMAIN last.additional_content
           /\ last.additional_content["target"] = last.additional_content["to"]

C12_RequiredAttributes ==
    LET keys == DOMAIN last.additional_content
    IN  last.op # "none" =>
          /\ (last.type \in {"link_text", "link_external"} /\ "target" \notin keys)
                => Failed /\ last.rule = TargetRule
          /\ last.type = "code" =>
                IF "lang" \in keys THEN Produced ELSE Failed /\ last.rule = LangRule
          /\ last.type = "image" =>
                IF "src" \in keys THEN Produced ELSE Failed /\ last.rule = SrcRule
          /\ last.raised =>
                /\ Failed
                /\ DOMAIN last.error_attrs = keys
                /\ \A k \in keys : last.error_attrs[k] = last.additional_content[k]
                /\ last.error_id = last.id
                /\ last.rule \in {FieldRule, TargetRule, HttpsRule, LangRule, SrcRule}

\* C12 witness: a code cell whose lang is the empty string was built after a
\* construction that failed.
C12_Witness ==
    /\ last.type = "code" /\ "lang" \in DOMAIN last.additional_content
    /\ last.additional_content["lang"] = <<>>
    /\ Produced /\ last.id = 2 /\ cells = <<2>>

-----------------------------------------------------------------------------
(* The file system and load_project                                        *)

CACHE_FOLDERS ==
    << <<".", "t", "o", "x">>,
       <<".", "m", "y", "p", "y", "_", "c", "a", "c", "h", "e">>,
       <<".", "e", "g", "g", "-", "i", "n", "f", "o">>,
       <<".", "p", "y", "t", "e", "s", "t", "_", "c", "a", "c", "h", "e">> >>

README_md == <<"R", "E", "A", "D", "M", "E", ".", "m", "d">>

lib == <<"l", "i", "b">>
pytest_cache == <<".", "p", "y", "t", "e", "s", "t", "_", "c", "a", "c", "h", "e">>
x_tox == <<"x", ".", "t", "o", "x">>

\* The directory names the trees are built from: an ordinary one, a cache folder,
\* and one that only contains a cache folder's name.
DirNames == {lib, pytest_cache, x_tox}

\* The paths load_project is called with: an ordinary one and one that contains
\* a cache folder's name.
RootPaths == { <<"r">>, <<"r", ".", "t", "o", "x">> }

\* Python's `sub in s` on strings
contains(sub, s) ==
    \E i \in 1..(Len(s) - Len(sub) + 1) : SubSeq(s, i, i + Len(sub) - 1) = sub

\* os.path.join(path, name)
join(path, name) == path \o <<"/">> \o name

\* What os.walk reports at dirpath: its subdirectories and its files.
dirnames(dirpath) == { n \in DirNames : join(dirpath, n) \in dirs }
files(dirpath) == IF dirpath \in readme THEN {README_md} ELSE {}

\* os.listdir(path)
listdir(path) == dirnames(path) \cup files(path)

\* The orders in which a directory listing can come back.
Orders(S) ==
    { o \in [1..Cardinality(S) -> S] : \A i, j \in 1..Cardinality(S) : i # j => o[i] # o[j] }

\* load_project's root check, a broken variant: a README.md anywhere in the tree
\* is enough.
has_readme_anywhere(path) == readme # {}

\* load_project's root check.
has_readme(path) == README_md \in listdir(path)

\* The skip flag, a broken variant: each cache folder overwrites the flag, so
\* only the last one of the list counts.
skip_last_wins(dirpath) == contains(CACHE_FOLDERS[Len(CACHE_FOLDERS)], dirpath)

\* The skip flag, a broken variant: never set.
skip_never(dirpath) == FALSE

\* The skip flag load_project computes for a directory the walk yields.
skip(dirpath) ==
    \E i \in 1..Len(CACHE_FOLDERS) : contains(CACHE_FOLDERS[i], dirpath)

\* load_module(path)
load_module(path) == [name |-> path, language |-> path, language_specs |-> "None"]

\* The environment creates a directory below the scan root before the scan.
Mkdir ==
    /\ pc = "idle"
    /\ Cardinality(dirs) <= MaxDirs
    /\ \E parent \in dirs, n \in DirNames :
          /\ join(parent, n) \notin dirs
          /\ dirs' = dirs \cup {join(parent, n)}
    /\ UNCHANGED <<readme, scan_root, pc, stack, visited, positions, scan>>

\* The environment creates a file README.md before the scan.
Touch ==
    /\ pc = "idle"
    /\ \E d \in dirs \ readme : readme' = readme \cup {d}
    /\ UNCHANGED <<dirs, scan_root, pc, stack, visited, positions, scan>>

\* load_project(path), up to the start of the walk: without README.md in the
\* listing of path it raises ValueError(path, ...).
load_project ==
    /\ pc = "idle"
    /\ IF ~has_readme(scan_root)
       THEN /\ pc' = "raised"
            /\ scan' = [raised |-> TRUE, path |-> scan_root, result |-> <<>>]
            /\ stack' = stack
       ELSE /\ pc' = "walk"
            /\ stack' = <<scan_root>>
            /\ scan' = scan
    /\ UNCHANGED <<dirs, readme, scan_root, visited, positions>>

\* One round of `for dirpath, dirname, files in walk(path)`: os.walk yields the
\* next directory, top-down, and will go into every subdirectory it listed (the
\* loop body leaves dirname alone); the body skips the directory or records it.
walk ==
    /\ pc = "walk"
    /\ stack # <<>>
    /\ LET dirpath == Head(stack)
       IN  /\ \E order \in Orders(dirnames(dirpath)) :
                 stack' = [i \in 1..Len(order) |-> join(dirpath, order[i])] \o Tail(stack)
           /\ visited' = Append(visited, dirpath)
           /\ positions' = IF ~skip(dirpath) /\ README_md \in files(dirpath)
                           THEN Append(positions, dirpath)
                           ELSE positions
    /\ UNCHANGED <<dirs, readme, scan_root, pc, scan>>

\* The end of the walk, a broken variant: the last position is left out.
load_modules_short ==
    /\ pc = "walk"
    /\ stack = <<>>
    /\ pc' = "done"
    /\ scan' = [raised |-> FALSE, path |-> scan_root,
               result |-> [i \in 1..(Len(positions) - 1) |-> load_module(positions[i])]]
    /\ UNCHANGED <<dirs, readme, scan_root, stack, visited, positions>>

\* The walk is over: every position becomes a Module and the list is returned.
load_modules ==
    /\ pc = "walk"
    /\ stack = <<>>
    /\ pc' = "done"
    /\ scan' = [raised |-> FALSE, path |-> scan_root,
               result |-> [i \in 1..Len(positions) |-> load_module(positions[i])]]
    /\ UNCHANGED <<dirs, readme, scan_root, stack, visited, positions>>

InitScan ==
    /\ APP_CONFIG = DefaultConfig
    /\ CellIdle /\ RegistryIdle /\ DepIdle
    /\ scan_root \in RootPaths
    /\ dirs = {scan_root} /\ readme = {} /\ pc = "idle"
    /\ stack = <<>> /\ visited = <<>> /\ positions = <<>>
    /\ scan = [raised |-> FALSE, path |-> <<>>, result |-> <<>>]

NextScan ==
    \/ Mkdir /\ UNCHANGED <<APP_CONFIG, cell_vars, registry_vars, dep_vars>>
    \/ Touch /\ UNCHANGED <<APP_CONFIG, cell_vars, registry_vars, dep_vars>>
    \/ load_project /\ UNCHANGED <<APP_CONFIG, cell_vars, registry_vars, dep_vars>>
    \/ walk /\ UNCHANGED <<APP_CONFIG, cell_vars, registry_vars, dep_vars>>
    \/ load_modules /\ UNCHANGED <<APP_CONFIG, cell_vars, registry_vars, dep_vars>>

SpecScan == InitScan /\ [][NextScan]_vars

\* The path contains the name of a cache folder.
InCache(path) == \E i \in 1..Len(CACHE_FOLDERS) : contains(CACHE_FOLDERS[i], path)

\* d lies below a.
Below(d, a) == startswith(d, a \o <<"/">>)

Range(seq) == { seq[i] : i \in 1..Len(seq) }

ModulePaths == { scan.result[i].name : i \in 1..Len(scan.result) }

\* C5 (as stated): no Module is returned for a directory whose path contains a
\* cache folder's name, and the walk visits no descendant of such a directory.
C5_CacheSubtreesNotVisited ==
    /\ \A p \in ModulePaths \cup Range(positions) : ~InCache(p)
    /\ \A d \in Range(visited) : \A a \in dirs : InCache(a) => ~Below(d, a)

\* C5 (amended): no directory whose path contains a cache folder's name, and so no
\* descendant of one, is recorded as a position or returned as a Module, README.md
\* or not; the walk itself still visits every directory of the tree.
C5_CacheSubtreesNotReported ==
    /\ \A p \in ModulePaths \cup Range(positions) : ~InCache(p)
    /\ \A d \in dirs : \A a \in dirs :
          (InCache(a) /\ Below(d, a)) => d \notin ModulePaths \cup Range(positions)
    /\ pc = "done" => Range(visited) = dirs

\* C5 witness: a scan ended that visited a cache directory with README.md and a
\* descendant of it with README.md, and returned a Module.
C5_Witness ==
    /\ pc = "done" /\ scan.result # <<>>
    /\ \E a \in readme, d \in readme :
          InCache(a) /\ Below(d, a) /\ d \in Range(visited) /\ a # scan_root

\* The tree of the scenario: README.md in the root, in lib/ and in .pytest_cache/.
ScenarioTree ==
    /\ scan_root = <<"r">>
    /\ dirs = {scan_root, join(scan_root, lib), join(scan_root, pytest_cache)}
    /\ readme = dirs

\* C6 (as stated): the scan of the scenario's tree returns exactly one Module, the
\* one at lib/.
C6_ScenarioOneModule ==
    (ScenarioTree /\ pc = "done") =>
        scan.result = << load_module(join(scan_root, lib)) >>

\* C6 (amended): the scan of the scenario's tree returns exactly two Modules, the
\* scan root and then lib/, and none at the cache path.
C6_ScenarioRootAndLib ==
    (ScenarioTree /\ pc = "done") =>
        scan.result = << load_module(scan_root), load_module(join(scan_root, lib)) >>

\* C6 witness: the scan of the scenario's tree has ended.
C6_Witness == ScenarioTree /\ pc = "done" /\ ~scan.raised

WalkIndex(d) == CHOOSE i \in 1..Len(visited) : visited[i] = d

\* C13: a scan that got past the root check returns exactly one Module per
\* directory that holds README.md and whose path contains no cache folder's name,
\* the scan root included, and no other; the Modules come in the order of the
\* walk, and each has an unresolved language spec.
C13_OneModulePerQualifyingDirectory ==
    pc = "done" =>
        /\ ModulePaths = { d \in dirs : README_md \in files(d) /\ ~InCache(d) }
        /\ Len(scan.result) = Cardinality(ModulePaths)
        /\ \A i, j \in 1..Len(scan.result) :
              i < j => WalkIndex(scan.result[i].name) < WalkIndex(scan.result[j].name)
        /\ \A i \in 1..Len(scan.result) : scan.result[i].language_specs = "None"

\* C13 witness: a scan returned the root and a directory two levels down, and
\* left out a directory without README.md between them.
C13_Witness ==
    /\ pc = "done" /\ scan_root = <<"r">>
    /\ readme = {scan_root, join(join(scan_root, lib), lib)}
    /\ join(scan_root, lib) \in dirs
    /\ Len(scan.result) = 2
    /\ scan.result[2].name = join(join(scan_root, lib), lib)

-----------------------------------------------------------------------------
(* AppResources                                                            *)

\* str.lower(), on the letters the names are written with
lower_char(c) ==
    CASE c = "P" -> "p"
      [] c = "Y" -> "y"
      [] c = "G" -> "g"
      [] c = "O" -> "o"
      [] OTHER -> c

lower(s) == [i \in 1..Len(s) |-> lower_char(s[i])]

\* The language names the plugin files are tried with.
LangNames == { <<"P", "y">>, <<"p", "y">>, <<"g", "o">> }

\* The names is_language_exists is asked for.
Queries == { <<"p", "y">>, <<"P", "y">>, <<"P", "Y">>, <<"g", "o">> }

\* The plugins a manifest can name.
PluginNames == {"p1", "p2"}

LanguageSpecs(language_name) == [language_name |-> language_name]

\* <home>/plugins/<name>.obj: absent, or the pickle of a LanguageSpecs.
NoFile == [present |-> FALSE, object |-> LanguageSpecs(<<>>)]
PluginFile(language_name) == [present |-> TRUE, object |-> LanguageSpecs(language_name)]
FileStates == {NoFile} \cup { PluginFile(n) : n \in LangNames }

\* A manifest entry, a TOML table: a dict.
Plugin(name) == [name |-> name, version |-> "1", vendor |-> "v", timestamp |-> "t"]

RECURSIVE Manifests(_)
Manifests(n) ==
    IF n = 0 THEN { <<>> }
    ELSE Manifests(n - 1)
            \cup { Append(m, Plugin(p)) : m \in { x \in Manifests(n - 1) : Len(x) = n - 1 },
                                          p \in PluginNames }

\* Whether hash(key) works: the keys popped here are manifest entries, dicts, and
\* a dict is unhashable.
hashable(key) == FALSE

\* data.pop(key), with no default: the exception it raises, "" for none.
dict_pop(data, key) ==
    IF ~hashable(key) THEN "TypeError"
    ELSE IF key \notin DOMAIN data THEN "KeyError"
    ELSE ""

\* The loop of AppResources.__init__ over the manifest entries still to load:
\* the catalog it leaves, the damaged-plugin reports it printed and the
\* exception that ended it ("" when it ran to the end).  install() and the
\* prompt only print.
RECURSIVE load_plugins(_, _, _, _)
load_plugins(data, plugins, langs, reports) ==
    IF plugins = <<>>
    THEN [languages |-> langs, reports |-> reports, raised |-> ""]
    ELSE LET plugin == Head(plugins)
             file == plugin_files[plugin.name]
         IN  IF file.present
             THEN load_plugins(data, Tail(plugins), Append(langs, file.object), reports)
             ELSE LET popped == dict_pop(data, plugin)
                  IN  IF popped # ""
                      THEN [languages |-> langs, reports |-> reports, raised |-> popped]
                      ELSE load_plugins(data, Tail(plugins), langs, reports + 1)

\* AppResources(data): __init__ appends to the class attribute _languages.
AppResources ==
    \E plugins \in Manifests(MaxPlugins) :
        LET data == [plugins |-> plugins, translations |-> [enabled |-> FALSE]]
            r == load_plugins(data, plugins, languages, 0)
        IN  /\ Len(languages) + Len(plugins) <= MaxLangs
            /\ languages' = r.languages
            /\ last_load' = [outcome |-> IF r.raised = "" THEN "loaded" ELSE "raised",
                             raised |-> r.raised, plugins |-> plugins,
                             before |-> languages, reports |-> r.reports]
            /\ UNCHANGED <<plugin_files, last_query>>

\* get_all_languages, a broken variant: the names are not lowercased.
get_all_languages_raw(langs) == [i \in 1..Len(langs) |-> langs[i].language_name]

\* AppResources.get_all_languages
get_all_languages(langs) == [i \in 1..Len(langs) |-> lower(langs[i].language_name)]

\* AppResources.is_language_exists: `lang in self.get_all_languages()`
is_language_exists_in(langs, lang) ==
    \E i \in 1..Len(langs) : get_all_languages(langs)[i] = lang

is_language_exists ==
    \E lang \in Queries :
        /\ last_query' = [asked |-> TRUE, lang |-> lang, languages |-> languages,
                          answer |-> is_language_exists_in(languages, lang)]
        /\ UNCHANGED <<plugin_files, languages, last_load>>

\* add_plugin(plugin), for a plugin name or a LanguageSpecs: both registered
\* bodies are `...`, so the call returns None and touches nothing.
add_plugin ==
    /\ \/ \E plugin \in PluginNames : TRUE
       \/ \E plugin \in { LanguageSpecs(n) : n \in LangNames } : TRUE
    /\ UNCHANGED <<plugin_files, languages, last_load, last_query>>

InitRegistry ==
    /\ \E always_yes \in BOOLEAN : APP_CONFIG = AppConfig(FALSE, FALSE, always_yes, FALSE)
    /\ CellIdle /\ ScanIdle /\ DepIdle
    /\ plugin_files \in [PluginNames -> FileStates]
    /\ languages = <<>>
    /\ last_load = [outcome |-> "none", raised |-> "", plugins |-> <<>>,
                    before |-> <<>>, reports |-> 0]
    /\ last_query = [asked |-> FALSE, lang |-> <<>>, languages |-> <<>>, answer |-> FALSE]

NextRegistry ==
    \/ AppResources /\ UNCHANGED <<APP_CONFIG, cell_vars, scan_vars, dep_vars>>
    \/ is_language_exists /\ UNCHANGED <<APP_CONFIG, cell_vars, scan_vars, dep_vars>>
    \/ add_plugin /\ UNCHANGED <<APP_CONFIG, cell_vars, scan_vars, dep_vars>>

SpecRegistry == InitRegistry /\ [][NextRegistry]_vars

\* The entries of a manifest whose descriptor file is missing / is there.
Damaged(plugins) == { i \in 1..Len(plugins) : ~plugin_files[plugins[i].name].present }

RECURSIVE Loadable(_)
Loadable(plugins) ==
    IF plugins = <<>> THEN <<>>
    ELSE IF plugin_files[Head(plugins).name].present
         THEN <<plugin_files[Head(plugins).name].object>> \o Loadable(Tail(plugins))
         ELSE Loadable(Tail(plugins))

\* C8: a load never aborts: every entry whose file is missing gives one damaged
\* plugin report and is left out, the other entries are loaded; a manifest of one
\* plugin whose file is missing leaves no entry in the catalog.
C8_DamagedPluginNeverAborts ==
    last_load.outcome # "none" =>
        /\ last_load.outcome = "loaded"
        /\ last_load.reports = Cardinality(Damaged(last_load.plugins))
        /\ languages = last_load.before \o Loadable(last_load.plugins)
        /\ (Len(last_load.plugins) = 1 /\ Damaged(last_load.plugins) # {})
              => languages = last_load.before

\* C9 (as stated): the answer is true exactly when a loaded name equals the query
\* ignoring case, whatever the order of the catalog.
C9_CaseInsensitiveQuery ==
    last_query.asked =>
        (last_query.answer <=>
            \E spec \in Range(last_query.languages) :
                lower(spec.language_name) = lower(last_query.lang))

\* C9 (amended): the answer is true exactly when a loaded name, lowercased, equals
\* the query as it was given, whatever the order of the catalog; the case of the
\* loaded names is ignored, the case of the query is not.
C9_LowercaseQuery ==
    last_query.asked =>
        (last_query.answer <=>
            \E spec \in Range(last_query.languages) :
                lower(spec.language_name) = last_query.lang)

\* C9 witness: a name loaded with a capital, after another name, was found by its
\* lowercase spelling.
C9_Witness ==
    /\ last_query.asked /\ last_query.answer
    /\ last_query.lang = <<"p", "y">>
    /\ Len(last_query.languages) = 2
    /\ last_query.languages[1].language_name = <<"g", "o">>
    /\ last_query.languages[2].language_name = <<"P", "y">>

\* C11: the catalog holds at most one LanguageSpecs per language name: no two
\* entries share a name, a spec loaded under a name that is already there having
\* replaced the earlier entry.
C11_UniqueLanguageNames ==
    \A i, j \in 1..Len(languages) :
        i # j => languages[i].language_name # languages[j].language_name

-----------------------------------------------------------------------------
(* Dependency                                                              *)

DepNames == { <<"a">>, <<"b", "\"">>, <<>> }
DepVersions == { <<"1">>, <<"2">>, <<>> }
VendorNames == { <<"v">>, <<"w">> }
Licenses == { <<"M">>, <<"G">>, <<>> }

Vendor(name) == [_name |-> name]

Dependency(name, version, vendor, license, machine_name) ==
    [name |-> name, version |-> version, vendor |-> vendor, license |-> license,
     machine_name |-> machine_name, description |-> <<>>]

\* Python values handed to json.dumps: a str, or an instance of a class.
PyStr(s) == [kind |-> "str", value |-> s]
PyVendor(v) == [kind |-> "Vendor", value |-> v._name]

\* The JSON text of a str: quoted, with quote and backslash escaped.
RECURSIVE json_escape(_)
json_escape(s) ==
    IF s = <<>> THEN <<>>
    ELSE (IF Head(s) \in {"\"", "\\"} THEN <<"\\", Head(s)>> ELSE <<Head(s)>>)
            \o json_escape(Tail(s))

json_string(s) == <<"\"">> \o json_escape(s) \o <<"\"">>

\* json.dumps of a dict, given as its items in insertion order: TypeError when a
\* value is not JSON serializable, else the members in order.
dumps(items) ==
    IF \E i \in 1..Len(items) : items[i][2].kind # "str"
    THEN [raised |-> "TypeError", members |-> <<>>]
    ELSE [raised |-> "",
          members |-> [i \in 1..Len(items) |->
                         <<json_string(items[i][1]), json_string(items[i][2].value)>>]]

key_name == <<"n", "a", "m", "e">>
key_version == <<"v", "e", "r", "s", "i", "o", "n">>
key_vendor == <<"v", "e", "n", "d", "o", "r">>
key_license == <<"l", "i", "c", "e", "n", "s", "e">>

\* Dependency.to_json: the value under "version" is self.vendor.
to_json(d) ==
    dumps(<< <<key_name, PyStr(d.name)>>,
             <<key_version, PyVendor(d.vendor)>>,
             <<key_vendor, PyStr(d.vendor._name)>>,
             <<key_license, PyStr(d.license)>> >>)

\* dep.to_json() is called.
ToJson ==
    /\ json_out' = [called |-> TRUE, calls |-> IF json_out.calls < 2 THEN json_out.calls + 1 ELSE 2,
                    raised |-> to_json(dep).raised, members |-> to_json(dep).members]
    /\ UNCHANGED dep

InitDep ==
    /\ APP_CONFIG = DefaultConfig
    /\ CellIdle /\ ScanIdle /\ RegistryIdle
    /\ \E name \in DepNames, version \in DepVersions, vendor \in VendorNames,
          license \in Licenses :
           dep = Dependency(name, version, Vendor(vendor), license, name)
    /\ json_out = [called |-> FALSE, calls |-> 0, raised |-> "", members |-> <<>>]

NextDep ==
    \/ ToJson /\ UNCHANGED <<APP_CONFIG, cell_vars, scan_vars, registry_vars>>

SpecDep == InitDep /\ [][NextDep]_vars

\* C10: to_json gives a JSON object with the keys name, version, vendor and
\* license, whose values are the Dependency's name, version string, vendor name
\* and license.
C10_ToJsonCanonical ==
    json_out.called =>
        /\ json_out.raised = ""
        /\ json_out.members =
              << <<json_string(key_name), json_string(dep.name)>>,
                 <<json_string(key_version), json_string(dep.version)>>,
                 <<json_string(key_vendor), json_string(dep.vendor._name)>>,
                 <<json_string(key_license), json_string(dep.license)>> >>

====
